---- MODULE Spec2Model ----
(***************************************************************************)
(* cache-man: a promise based single-slot cache.                           *)
(*                                                                         *)
(* The Controller is createCache of src/src/Cache.js (get, clear, _get,    *)
(* _newGet and the _work slot) on top of the in-memory backend of          *)
(* src/src/MemoryStorageBackend.js, whose "nothing cached" value is null.  *)
(* The later revision of the backend (src/unnamed/part_003), which has a   *)
(* private NO_RESULT marker and a clear(), is modelled next to it as a     *)
(* stand-alone object and exercised by SpecBackend.                        *)
(*                                                                         *)
(* Construction (CacheMan.create of src/unnamed/part_002 with Checker.js   *)
(* and the Validator of src/src/Cache.js) is exercised by SpecCreate, and  *)
(* SpecLive adds to Spec the fairness of the job queue.                    *)
(*                                                                         *)
(* Promise reaction jobs are separate steps: the settlement of the         *)
(* upstream promise together with the write-through of _newGet (Settle),   *)
(* the release of the _work slot in _get (Release) and the resolve/reject  *)
(* of each caller's promise in get (Deliver). Other jobs (get, clear, a    *)
(* clock change) may run between any two of them.                          *)
(***************************************************************************)
EXTENDS Integers, Sequences, FiniteSets

\* ---------------------------------------------------------------- bounds
MaxTime == 2        \* the clock runs over 0..MaxTime
MaxCalls == 2       \* get() calls per behaviour
MaxClears == 1      \* clear() calls are counted up to MaxClears

\* ---------------------------------------------------------------- values
\* JavaScript values: null, a falsy payload (0), two truthy payloads, and
\* the error objects.
NULL == "null"
ZERO == "0"
Payloads == {"A", "B", ZERO, NULL}
Errors == {"E1", "E2"}

\* !x of JavaScript, on the values above
Falsy(x) == x \in {NULL, ZERO}

VARIABLES
  now,              \* Date.now()
  storage,          \* MemoryStorageBackend: storage
  lastAccessTime,   \* MemoryStorageBackend: lastAccessTime
  work,             \* Cache.js: _work, NoFetch for null, else the fetch it holds
  fetches,          \* the fetches whose promises are alive, by slot
  gets,             \* number of get() calls so far
  clears,           \* number of clear() calls so far
  lastCall,         \* history: the latest event on a promise returned by get()
  lastWrite,        \* history: who wrote the backend last
  nrStorage,        \* part_003: storage
  nrLastAccessTime, \* part_003: lastAccessTime
  nrNow,            \* part_003: Date.now()
  nrResult,         \* part_003: what the last get() returned
  nrOp,             \* part_003: the last operation applied
  made,             \* the latest CacheMan.create call: its arguments and outcome
  multi             \* a Controller on an ordered list of backends

ctlVars == <<now, storage, lastAccessTime, work, fetches, gets, clears, lastCall, lastWrite>>
nrVars == <<nrStorage, nrLastAccessTime, nrNow, nrResult, nrOp>>
vars == <<now, storage, lastAccessTime, work, fetches, gets, clears, lastCall, lastWrite,
          nrStorage, nrLastAccessTime, nrNow, nrResult, nrOp, made, multi>>

\* The TTL the backend was created with (MemoryStorageBackend.create(timeout)),
\* in clock ticks.
timeout == 1

\* ------------------------------------------- MemoryStorageBackend.js
\* get(): null when nothing (truthy) is stored or the entry is past its TTL
\* at the backend's own reading q of the clock.
MemGet(st, last, ttl, q) ==
  IF Falsy(st) \/ last + ttl < q THEN NULL ELSE st

\* set(data, accessTime)
MemSet(data, accessTime) ==
  /\ storage' = data
  /\ lastAccessTime' = accessTime

\* ------------------------------------------------------------ part_003
NO_RESULT == "NO_RESULT"

\* Mutant: the entry expires at the boundary q = last + ttl already.
NrGetResultExclusive(st, last, ttl, q) ==
  IF st = NO_RESULT \/ last + ttl <= q THEN NO_RESULT ELSE st

\* get(): NO_RESULT when nothing is stored or the entry is past its TTL
NrGetResult(st, last, ttl, q) ==
  IF st = NO_RESULT \/ last + ttl < q THEN NO_RESULT ELSE st

\* ------------------------------------- Checker.js, Validator, CacheMan
\* JavaScript values handed in as a timeout: numbers, NaN, a string, and
\* undefined for an option that is not given.
Num(n) == [type |-> "number", nan |-> FALSE, val |-> n]
NaN == [type |-> "number", nan |-> TRUE, val |-> 0]
Str == [type |-> "string", nan |-> FALSE, val |-> 1]
Undefined == [type |-> "undefined", nan |-> FALSE, val |-> 0]

\* Number.MAX_SAFE_INTEGER is 2^53 - 1; the largest integer of the model
\* stands for it.
MAX_SAFE_INTEGER == 2147483647
DEFAULT_TIMEOUT == 120000

TimeoutInputs ==
  {Num(-1), Num(0), Num(1), Num(DEFAULT_TIMEOUT), Num(MAX_SAFE_INTEGER - 1),
   Num(MAX_SAFE_INTEGER), NaN, Str, Undefined}

\* !!x on these values: 0, NaN and undefined are falsy, the string is not empty
Truthy(x) ==
  CASE x.type = "number" -> ~x.nan /\ x.val # 0
    [] x.type = "string" -> TRUE
    [] OTHER -> FALSE

\* Checker.timeout
CheckerTimeout(timeoutInMillis) ==
  /\ Truthy(timeoutInMillis)
  /\ timeoutInMillis.type = "number"
  /\ timeoutInMillis.val > 0
  /\ timeoutInMillis.val < MAX_SAFE_INTEGER

\* Checker.resolver, on "function" and "undefined"
Resolvers == {"function", "undefined"}
CheckerResolver(resolver) == resolver = "function"

\* A backend option: not given, or an object that has or lacks get and set
\* and carries some timeout. (Lists of backends are not covered here.)
NoBackend == [given |-> FALSE, get |-> FALSE, set |-> FALSE, timeout |-> Undefined]
BackendInputs ==
  {NoBackend} \cup
  [given : {TRUE}, get : BOOLEAN, set : BOOLEAN, timeout : TimeoutInputs]

\* Checker.backend, for a single backend
CheckerBackend(backend) ==
  /\ backend.given
  /\ backend.get /\ backend.set
  /\ CheckerTimeout(backend.timeout)

\* The outcome of a construction: the error thrown, or what was built.
ConfigError == [ok |-> FALSE, timeout |-> Undefined, backend |-> NoBackend]
Built(timeoutInMillis, backend) ==
  [ok |-> TRUE, timeout |-> timeoutInMillis, backend |-> backend]

\* MemoryStorageBackend.create(timeout): Validator.timeout throws on an
\* invalid timeout.
MemoryStorageBackendCreate(t) ==
  IF CheckerTimeout(t)
  THEN Built(t, [given |-> TRUE, get |-> TRUE, set |-> TRUE, timeout |-> t])
  ELSE ConfigError

\* createCache(upstream, timeoutInMillis, backend): Validator.resolver,
\* Validator.backend and Validator.timeout each throw on an invalid argument.
createCache(upstream, timeoutInMillis, backend) ==
  IF CheckerResolver(upstream) /\ CheckerBackend(backend) /\ CheckerTimeout(timeoutInMillis)
  THEN Built(timeoutInMillis, backend)
  ELSE ConfigError

\* CacheMan.create(upstream, options), the public entry point: a timeout
\* that fails Checker.timeout is replaced by DEFAULT_TIMEOUT, a backend that
\* fails Checker.backend by MemoryStorageBackend.create().
CacheManCreate(upstream, optTimeout, optBackend) ==
  LET timeoutInMillis == IF CheckerTimeout(optTimeout) THEN optTimeout
                         ELSE Num(DEFAULT_TIMEOUT)
      fallback == MemoryStorageBackendCreate(Undefined)
  IN IF CheckerBackend(optBackend)
     THEN createCache(upstream, timeoutInMillis, optBackend)
     ELSE IF fallback.ok
          THEN createCache(upstream, timeoutInMillis, fallback.backend)
          ELSE ConfigError

NotMade == [called |-> FALSE, upstream |-> "undefined", timeout |-> Undefined,
            backend |-> NoBackend, result |-> ConfigError]

\* ------------------------------------------- a list of backends
\* The Controller for an ordered list of backends is not among the sources
\* (its caller CacheMan.create and Checker.backend, which admits a list,
\* are); it is modelled from the specification. Each backend of the list is
\* the in-memory backend of part_003 with a TTL of its own.
MBackends == {1, 2}
MultiTimeout(i) == timeout + i - 1

\*   now         Date.now()
\*   store       per backend: storage and lastAccessTime
\*   work        a fetch is in flight
\*   accessTime  the clock reading at the start of that fetch
\*   op, result  history: the latest operation and what get() came to
MultiInit ==
  [now |-> 0,
   store |-> [i \in MBackends |-> [storage |-> NO_RESULT, lastAccessTime |-> 0]],
   work |-> FALSE, accessTime |-> 0, op |-> "create",
   result |-> [ev |-> "none", val |-> NO_RESULT]]

\* get() of backend i of the list
MultiRead(i) ==
  NrGetResult(multi.store[i].storage, multi.store[i].lastAccessTime,
              MultiTimeout(i), multi.now)

\* The backends that report a fresh value.
FreshBackends == {i \in MBackends : MultiRead(i) # NO_RESULT}

\* Mutant: the backends are asked in reverse order.
MultiFirstFreshReversed ==
  CHOOSE i \in FreshBackends : \A j \in FreshBackends : i >= j

\* The first backend, in the configured order, that reports a fresh value.
MultiFirstFresh ==
  CHOOSE i \in FreshBackends : \A j \in FreshBackends : i <= j

\* ------------------------------------------------------------- Cache.js
NoFetch == 0
Slots == 1..MaxCalls

\* Argument lists. The Controller only hands them on, so the list of the
\* k-th get() call is identified with k: every call brings its own.
NoArgs == 0

\* One fetch: an upstream invocation and the promise chain built on it.
\*   stage    "pending": the upstream promise has not settled;
\*            "stored": it has, and _newGet has written the backend;
\*            "released": _get has reset _work and the _work promise settled
\*   waiters  promises of get() attached to the _work promise, not yet settled
\*   args     the argument list the upstream was invoked with
\*   cleared  history: clear() ran while the fetch was in flight
\*   solo     history: no other fetch was in flight when this one started
\* A slot is free once the fetch is released and no promise waits on it.
Free == [stage |-> "free", accessTime |-> 0, ok |-> TRUE, val |-> NULL,
         waiters |-> 0, cleared |-> FALSE, solo |-> FALSE, args |-> NoArgs]

\* An upstream call that has started and whose promise has not settled.
Outstanding == {f \in Slots : fetches[f].stage = "pending"}

\* A fetch whose _work promise has not settled.
InFlight == {f \in Slots : fetches[f].stage \in {"pending", "stored"}}

FreeSlots == {f \in Slots : fetches[f].stage = "free"}

Init ==
  /\ now = 0
  /\ storage = NULL
  /\ lastAccessTime = 0
  /\ work = NoFetch
  /\ fetches = [f \in Slots |-> Free]
  /\ gets = 0
  /\ clears = 0
  /\ lastCall = [ev |-> "none", fetch |-> NoFetch, result |-> NULL]
  /\ lastWrite = [kind |-> "init", id |-> NoFetch, cleared |-> FALSE, fresh |-> FALSE,
                  phase |-> "released"]
  /\ nrStorage = NO_RESULT
  /\ nrLastAccessTime = 0
  /\ nrNow = 0
  /\ nrResult = NO_RESULT
  /\ nrOp = "create"
  /\ made = NotMade
  /\ multi = MultiInit

\* The clock moves on between two jobs.
Tick ==
  /\ now < MaxTime
  /\ now' = now + 1
  /\ UNCHANGED <<storage, lastAccessTime, work, fetches, gets, clears, lastCall, lastWrite>>
  /\ UNCHANGED nrVars
  /\ UNCHANGED made
  /\ UNCHANGED multi

\* What the upstream resolver does when invoked: it returns a promise or a
\* value that _newGet wraps with Promise.resolve ("returns"), it returns
\* null or undefined ("nullish"), or it throws an error.
Upstream == {"returns", "nullish"} \cup Errors

\* What leaves _newGet when no promise comes out of it: the error the
\* upstream threw, or the TypeError of reading .then of null or undefined.
Thrown(up) == IF up = "nullish" THEN "TypeError" ELSE up

\* lastWrite is history: the latest write of the backend.
\*   kind     "init", "clear" (clear()), "ok" or "fail" (a fetch's write)
\*   id       the fetch that wrote; NoFetch for clear() and once phase is "moved"
\*   cleared  the writing fetch had seen a clear() while in flight
\*   fresh    clear() erased an entry the backend reported as fresh
\*   phase    "stored": the writing fetch has not released _work yet;
\*            "released": it has, and the upstream has not been invoked since;
\*            "moved": the upstream has been invoked since
\* An upstream invocation ends the quiet period after the last write.
Moved == IF lastWrite.phase = "released"
         THEN [lastWrite EXCEPT !.phase = "moved", !.id = NoFetch]
         ELSE lastWrite

\* Mutant: a throw of the upstream becomes a rejected promise kept in _work.
NewGetCatchesThrow(accessTime, up, args) ==
  /\ FreeSlots # {}
  /\ LET f == CHOOSE x \in FreeSlots : \A y \in FreeSlots : x <= y IN
     /\ fetches' = [fetches EXCEPT ![f] =
                      [stage |-> IF up = "returns" THEN "pending" ELSE "stored",
                       accessTime |-> accessTime, ok |-> (up = "returns"),
                       val |-> IF up = "returns" THEN NULL ELSE Thrown(up),
                       waiters |-> 1, cleared |-> FALSE,
                       solo |-> (InFlight = {}), args |-> args]]
     /\ work' = f
     /\ lastCall' = [ev |-> "start", fetch |-> f, result |-> NULL]

\* Mutant: the promise of a new fetch is not kept in _work.
NewGetForgetsWork(accessTime, up, args) ==
  IF up = "returns"
  THEN /\ FreeSlots # {}
       /\ LET f == CHOOSE x \in FreeSlots : \A y \in FreeSlots : x <= y IN
          /\ fetches' = [fetches EXCEPT ![f] =
                           [stage |-> "pending", accessTime |-> accessTime, ok |-> TRUE,
                            val |-> NULL, waiters |-> 1, cleared |-> FALSE,
                            solo |-> (InFlight = {}), args |-> args]]
          /\ work' = work
          /\ lastCall' = [ev |-> "start", fetch |-> f, result |-> NULL]
  ELSE /\ UNCHANGED <<work, fetches>>
       /\ lastCall' = [ev |-> "throw", fetch |-> NoFetch, result |-> Thrown(up)]

\* _newGet, up to the promise it returns: the upstream is invoked. When it
\* throws, or when reading .then of what it returned throws, the throw
\* leaves _get before _work is assigned and rejects the promise of get()
\* from inside its executor.
NewGet(accessTime, up, args) ==
  IF up = "returns"
  THEN /\ FreeSlots # {}
       /\ LET f == CHOOSE x \in FreeSlots : \A y \in FreeSlots : x <= y IN
          /\ fetches' = [fetches EXCEPT ![f] =
                           [stage |-> "pending", accessTime |-> accessTime, ok |-> TRUE,
                            val |-> NULL, waiters |-> 1, cleared |-> FALSE,
                            solo |-> (InFlight = {}), args |-> args]]
          /\ work' = f
          /\ lastCall' = [ev |-> "start", fetch |-> f, result |-> NULL]
  ELSE /\ UNCHANGED <<work, fetches>>
       /\ lastCall' = [ev |-> "throw", fetch |-> NoFetch, result |-> Thrown(up)]

\* Mutant: _get starts a fetch whether or not one is in progress.
GetWorkNeverJoins(accessTime, up, args) ==
  /\ NewGet(accessTime, up, args)
  /\ lastWrite' = Moved

\* Mutant: a call that joins hands its own arguments to the fetch.
GetWorkPassesArgs(accessTime, up, args) ==
  IF work = NoFetch
  THEN /\ NewGet(accessTime, up, args)
       /\ lastWrite' = Moved
  ELSE /\ fetches' = [fetches EXCEPT ![work].waiters = @ + 1, ![work].args = args]
       /\ lastCall' = [ev |-> "join", fetch |-> work, result |-> NULL]
       /\ UNCHANGED <<work, lastWrite>>

\* _get: start a fetch when _work is null, else attach to _work.
GetWork(accessTime, up, args) ==
  IF work = NoFetch
  THEN /\ NewGet(accessTime, up, args)
       /\ lastWrite' = Moved
  ELSE /\ fetches' = [fetches EXCEPT ![work].waiters = @ + 1]
       /\ lastCall' = [ev |-> "join", fetch |-> work, result |-> NULL]
       /\ UNCHANGED <<work, lastWrite>>

\* Mutant: the backend's expiry test uses the reading taken at call entry.
GetChecksAtEntry(d, up) ==
  /\ gets < MaxCalls
  /\ gets' = gets + 1
  /\ now + d <= MaxTime
  /\ LET accessTime == now
         cached == MemGet(storage, lastAccessTime, timeout, accessTime)
     IN /\ now' = now + d
        /\ IF Falsy(cached)
           THEN GetWork(accessTime, up, gets + 1)
           ELSE /\ lastCall' = [ev |-> "hit", fetch |-> NoFetch, result |-> cached]
                /\ UNCHANGED <<work, fetches, lastWrite>>
  /\ UNCHANGED <<storage, lastAccessTime, clears>>
  /\ UNCHANGED nrVars
  /\ UNCHANGED made
  /\ UNCHANGED multi

\* Mutant: a hit stamps the entry with the time of the call.
GetRefreshesOnHit(d, up) ==
  /\ gets < MaxCalls
  /\ gets' = gets + 1
  /\ now + d <= MaxTime
  /\ LET accessTime == now
         cached == MemGet(storage, lastAccessTime, timeout, now + d)
     IN /\ now' = now + d
        /\ IF Falsy(cached)
           THEN /\ GetWork(accessTime, up, gets + 1)
                /\ UNCHANGED lastAccessTime
           ELSE /\ lastCall' = [ev |-> "hit", fetch |-> NoFetch, result |-> cached]
                /\ lastAccessTime' = accessTime
                /\ UNCHANGED <<work, fetches, lastWrite>>
  /\ UNCHANGED <<storage, clears>>
  /\ UNCHANGED nrVars
  /\ UNCHANGED made
  /\ UNCHANGED multi

\* get(...args): `now` is read first, the backend reads the clock again
\* (d later) inside its get().
Get(d, up) ==
  /\ gets < MaxCalls
  /\ gets' = gets + 1
  /\ now + d <= MaxTime
  /\ LET accessTime == now
         cached == MemGet(storage, lastAccessTime, timeout, now + d)
     IN /\ now' = now + d
        /\ IF Falsy(cached)
           THEN GetWork(accessTime, up, gets + 1)
           ELSE /\ lastCall' = [ev |-> "hit", fetch |-> NoFetch, result |-> cached]
                /\ UNCHANGED <<work, fetches, lastWrite>>
  /\ UNCHANGED <<storage, lastAccessTime, clears>>
  /\ UNCHANGED nrVars
  /\ UNCHANGED made
  /\ UNCHANGED multi

\* Mutant: a failed fetch leaves the backend as it is.
SettleKeepsOnFailure(f, ok, v) ==
  /\ fetches[f].stage = "pending"
  /\ IF ok THEN v \in Payloads /\ MemSet(v, fetches[f].accessTime)
           ELSE v \in Errors /\ UNCHANGED <<storage, lastAccessTime>>
  /\ fetches' = [fetches EXCEPT ![f].stage = "stored", ![f].ok = ok, ![f].val = v]
  /\ lastWrite' = [kind |-> IF ok THEN "ok" ELSE "fail", id |-> f,
                   cleared |-> fetches[f].cleared, fresh |-> FALSE, phase |-> "stored"]
  /\ UNCHANGED <<now, work, gets, clears, lastCall>>
  /\ UNCHANGED nrVars
  /\ UNCHANGED made
  /\ UNCHANGED multi

\* Mutant: the write-through stamps the entry with the time of settlement.
SettleStampsNow(f, ok, v) ==
  /\ fetches[f].stage = "pending"
  /\ IF ok THEN v \in Payloads /\ MemSet(v, now)
           ELSE v \in Errors /\ MemSet(NULL, 0)
  /\ fetches' = [fetches EXCEPT ![f].stage = "stored", ![f].ok = ok, ![f].val = v]
  /\ lastWrite' = [kind |-> IF ok THEN "ok" ELSE "fail", id |-> f,
                   cleared |-> fetches[f].cleared, fresh |-> FALSE, phase |-> "stored"]
  /\ UNCHANGED <<now, work, gets, clears, lastCall>>
  /\ UNCHANGED nrVars
  /\ UNCHANGED made
  /\ UNCHANGED multi

\* Mutant: a failed fetch stores its error as if it were a result.
SettleStoresError(f, ok, v) ==
  /\ fetches[f].stage = "pending"
  /\ IF ok THEN v \in Payloads ELSE v \in Errors
  /\ MemSet(v, fetches[f].accessTime)
  /\ fetches' = [fetches EXCEPT ![f].stage = "stored", ![f].ok = ok, ![f].val = v]
  /\ lastWrite' = [kind |-> IF ok THEN "ok" ELSE "fail", id |-> f,
                   cleared |-> fetches[f].cleared, fresh |-> FALSE, phase |-> "stored"]
  /\ UNCHANGED <<now, work, gets, clears, lastCall>>
  /\ UNCHANGED nrVars
  /\ UNCHANGED made
  /\ UNCHANGED multi

\* Mutant: a fetch does not overwrite what a fetch started later has stored.
SettleYieldsToNewer(f, ok, v) ==
  /\ fetches[f].stage = "pending"
  /\ IF ok THEN v \in Payloads ELSE v \in Errors
  /\ IF lastWrite.kind = "ok" /\ lastAccessTime > fetches[f].accessTime
     THEN UNCHANGED <<storage, lastAccessTime>>
     ELSE IF ok THEN MemSet(v, fetches[f].accessTime) ELSE MemSet(NULL, 0)
  /\ fetches' = [fetches EXCEPT ![f].stage = "stored", ![f].ok = ok, ![f].val = v]
  /\ lastWrite' = [kind |-> IF ok THEN "ok" ELSE "fail", id |-> f,
                   cleared |-> fetches[f].cleared, fresh |-> FALSE, phase |-> "stored"]
  /\ UNCHANGED <<now, work, gets, clears, lastCall>>
  /\ UNCHANGED nrVars
  /\ UNCHANGED made
  /\ UNCHANGED multi

\* The upstream promise of fetch f settles and the reaction job of _newGet
\* runs: write-through on success, erase on failure.
Settle(f, ok, v) ==
  /\ fetches[f].stage = "pending"
  /\ IF ok THEN v \in Payloads /\ MemSet(v, fetches[f].accessTime)
           ELSE v \in Errors /\ MemSet(NULL, 0)
  /\ fetches' = [fetches EXCEPT ![f].stage = "stored", ![f].ok = ok, ![f].val = v]
  /\ lastWrite' = [kind |-> IF ok THEN "ok" ELSE "fail", id |-> f,
                   cleared |-> fetches[f].cleared, fresh |-> FALSE, phase |-> "stored"]
  /\ UNCHANGED <<now, work, gets, clears, lastCall>>
  /\ UNCHANGED nrVars
  /\ UNCHANGED made
  /\ UNCHANGED multi

\* Mutant: the reaction job of _get leaves _work as it is.
ReleaseKeepsWork(f) ==
  /\ fetches[f].stage = "stored"
  /\ work' = work
  /\ fetches' = [fetches EXCEPT ![f].stage = "released"]
  /\ lastWrite' = IF lastWrite.id = f /\ lastWrite.phase = "stored"
                  THEN [lastWrite EXCEPT !.phase = "released"]
                  ELSE lastWrite
  /\ UNCHANGED <<now, storage, lastAccessTime, gets, clears, lastCall>>
  /\ UNCHANGED nrVars
  /\ UNCHANGED made
  /\ UNCHANGED multi

\* The reaction job of _get for fetch f: _work = null, whatever _work holds.
Release(f) ==
  /\ fetches[f].stage = "stored"
  /\ work' = NoFetch
  /\ fetches' = [fetches EXCEPT ![f].stage = "released"]
  /\ lastWrite' = IF lastWrite.id = f /\ lastWrite.phase = "stored"
                  THEN [lastWrite EXCEPT !.phase = "released"]
                  ELSE lastWrite
  /\ UNCHANGED <<now, storage, lastAccessTime, gets, clears, lastCall>>
  /\ UNCHANGED nrVars
  /\ UNCHANGED made
  /\ UNCHANGED multi

\* Mutant: the error of a failed fetch is wrapped before it is handed on.
DeliverWrapsError(f) ==
  /\ fetches[f].stage = "released"
  /\ fetches[f].waiters > 0
  /\ fetches' = [fetches EXCEPT ![f] =
                   IF @.waiters = 1 THEN Free ELSE [@ EXCEPT !.waiters = @ - 1]]
  /\ lastCall' = [ev |-> IF fetches[f].ok THEN "resolve" ELSE "reject",
                  fetch |-> f,
                  result |-> IF fetches[f].ok THEN fetches[f].val ELSE "Wrapped"]
  /\ UNCHANGED <<now, storage, lastAccessTime, work, gets, clears, lastWrite>>
  /\ UNCHANGED nrVars
  /\ UNCHANGED made
  /\ UNCHANGED multi

\* Mutant: a waiting promise is settled with what the backend holds at that
\* moment instead of the result of its own fetch.
DeliverFromBackend(f) ==
  /\ fetches[f].stage = "released"
  /\ fetches[f].waiters > 0
  /\ fetches' = [fetches EXCEPT ![f] =
                   IF @.waiters = 1 THEN Free ELSE [@ EXCEPT !.waiters = @ - 1]]
  /\ lastCall' = [ev |-> IF fetches[f].ok THEN "resolve" ELSE "reject",
                  fetch |-> f,
                  result |-> IF fetches[f].ok THEN storage ELSE fetches[f].val]
  /\ UNCHANGED <<now, storage, lastAccessTime, work, gets, clears, lastWrite>>
  /\ UNCHANGED nrVars
  /\ UNCHANGED made
  /\ UNCHANGED multi

\* The reaction job of get() for one promise waiting on fetch f:
\* resolve(result) or reject(error).
Deliver(f) ==
  /\ fetches[f].stage = "released"
  /\ fetches[f].waiters > 0
  /\ fetches' = [fetches EXCEPT ![f] =
                   IF @.waiters = 1 THEN Free ELSE [@ EXCEPT !.waiters = @ - 1]]
  /\ lastCall' = [ev |-> IF fetches[f].ok THEN "resolve" ELSE "reject",
                  fetch |-> f, result |-> fetches[f].val]
  /\ UNCHANGED <<now, storage, lastAccessTime, work, gets, clears, lastWrite>>
  /\ UNCHANGED nrVars
  /\ UNCHANGED made
  /\ UNCHANGED multi

\* Mutant: clear() erases the backend and keeps _work.
ClearKeepsWork ==
  /\ MemSet(NULL, 0)
  /\ work' = work
  /\ clears' = IF clears < MaxClears THEN clears + 1 ELSE clears
  /\ fetches' = [f \in Slots |->
                   IF f \in InFlight THEN [fetches[f] EXCEPT !.cleared = TRUE]
                                     ELSE fetches[f]]
  /\ lastWrite' = [kind |-> "clear", id |-> NoFetch, cleared |-> FALSE,
                   fresh |-> MemGet(storage, lastAccessTime, timeout, now) # NULL,
                   phase |-> "released"]
  /\ UNCHANGED <<now, gets, lastCall>>
  /\ UNCHANGED nrVars
  /\ UNCHANGED made
  /\ UNCHANGED multi

\* Mutant: clear() resets _work and keeps what the backend holds.
ClearKeepsBackend ==
  /\ UNCHANGED <<storage, lastAccessTime>>
  /\ work' = NoFetch
  /\ clears' = IF clears < MaxClears THEN clears + 1 ELSE clears
  /\ fetches' = [f \in Slots |->
                   IF f \in InFlight THEN [fetches[f] EXCEPT !.cleared = TRUE]
                                     ELSE fetches[f]]
  /\ lastWrite' = [kind |-> "clear", id |-> NoFetch, cleared |-> FALSE,
                   fresh |-> MemGet(storage, lastAccessTime, timeout, now) # NULL,
                   phase |-> "released"]
  /\ UNCHANGED <<now, gets, lastCall>>
  /\ UNCHANGED nrVars
  /\ UNCHANGED made
  /\ UNCHANGED multi

\* clear(): erase the backend and forget the work in progress.
Clear ==
  /\ MemSet(NULL, 0)
  /\ work' = NoFetch
  /\ clears' = IF clears < MaxClears THEN clears + 1 ELSE clears
  /\ fetches' = [f \in Slots |->
                   IF f \in InFlight THEN [fetches[f] EXCEPT !.cleared = TRUE]
                                     ELSE fetches[f]]
  /\ lastWrite' = [kind |-> "clear", id |-> NoFetch, cleared |-> FALSE,
                   fresh |-> MemGet(storage, lastAccessTime, timeout, now) # NULL,
                   phase |-> "released"]
  /\ UNCHANGED <<now, gets, lastCall>>
  /\ UNCHANGED nrVars
  /\ UNCHANGED made
  /\ UNCHANGED multi

\* ------------------------------------------------- part_003, stand-alone
\* Mutant: set() keeps an entry that is newer than the one handed in.
NrSetKeepsNewer(data, accessTime) ==
  /\ nrStorage' = IF accessTime < nrLastAccessTime THEN nrStorage ELSE data
  /\ nrLastAccessTime' = IF accessTime < nrLastAccessTime THEN nrLastAccessTime
                         ELSE accessTime
  /\ nrOp' = "set"
  /\ UNCHANGED <<nrNow, nrResult>>
  /\ UNCHANGED ctlVars
  /\ UNCHANGED made
  /\ UNCHANGED multi

\* set(data, accessTime)
NrSet(data, accessTime) ==
  /\ nrStorage' = data
  /\ nrLastAccessTime' = accessTime
  /\ nrOp' = "set"
  /\ UNCHANGED <<nrNow, nrResult>>
  /\ UNCHANGED ctlVars
  /\ UNCHANGED made
  /\ UNCHANGED multi

\* Mutant: get() evicts an entry it finds expired.
NrGetEvicts ==
  /\ nrResult' = NrGetResult(nrStorage, nrLastAccessTime, timeout, nrNow)
  /\ nrStorage' = nrResult'
  /\ nrOp' = "get"
  /\ UNCHANGED <<nrLastAccessTime, nrNow>>
  /\ UNCHANGED ctlVars
  /\ UNCHANGED made
  /\ UNCHANGED multi

\* get()
NrGet ==
  /\ nrResult' = NrGetResult(nrStorage, nrLastAccessTime, timeout, nrNow)
  /\ nrOp' = "get"
  /\ UNCHANGED <<nrStorage, nrLastAccessTime, nrNow>>
  /\ UNCHANGED ctlVars
  /\ UNCHANGED made
  /\ UNCHANGED multi

\* clear()
NrClear ==
  /\ nrStorage' = NO_RESULT
  /\ nrLastAccessTime' = 0
  /\ nrOp' = "clear"
  /\ UNCHANGED <<nrNow, nrResult>>
  /\ UNCHANGED ctlVars
  /\ UNCHANGED made
  /\ UNCHANGED multi

NrTick ==
  /\ nrNow < MaxTime
  /\ nrNow' = nrNow + 1
  /\ nrOp' = "tick"
  /\ UNCHANGED <<nrStorage, nrLastAccessTime, nrResult>>
  /\ UNCHANGED ctlVars
  /\ UNCHANGED made
  /\ UNCHANGED multi

NextBackend ==
  \/ \E v \in Payloads, t \in 0..MaxTime : NrSet(v, t)
  \/ NrGet
  \/ NrClear
  \/ NrTick

SpecBackend == Init /\ [][NextBackend]_vars

\* --------------------------------------------------------- construction
\* One call of CacheMan.create(upstream, {timeout, backend}).
Create(upstream, optTimeout, optBackend) ==
  /\ made' = [called |-> TRUE, upstream |-> upstream, timeout |-> optTimeout,
              backend |-> optBackend,
              result |-> CacheManCreate(upstream, optTimeout, optBackend)]
  /\ UNCHANGED ctlVars
  /\ UNCHANGED nrVars
  /\ UNCHANGED multi

NextCreate ==
  \E upstream \in Resolvers, optTimeout \in TimeoutInputs, optBackend \in BackendInputs :
    Create(upstream, optTimeout, optBackend)

SpecCreate == Init /\ [][NextCreate]_vars

\* ------------------------------------- Controller on a list of backends
\* get(): the first fresh hit in the configured order, else start or join
\* the fetch.
MultiGet ==
  /\ multi' =
       IF FreshBackends # {}
       THEN [multi EXCEPT !.op = "get",
                          !.result = [ev |-> "hit", val |-> MultiRead(MultiFirstFresh)]]
       ELSE IF ~multi.work
            THEN [multi EXCEPT !.op = "get", !.work = TRUE, !.accessTime = multi.now,
                               !.result = [ev |-> "start", val |-> NO_RESULT]]
            ELSE [multi EXCEPT !.op = "get",
                               !.result = [ev |-> "join", val |-> NO_RESULT]]
  /\ UNCHANGED ctlVars
  /\ UNCHANGED nrVars
  /\ UNCHANGED made

\* The fetch settles: on success the result and the fetch-start time are
\* written to every backend, on failure every backend is emptied; the
\* in-flight marker is cleared.
MultiSettle(ok, v) ==
  /\ multi.work
  /\ IF ok THEN v \in Payloads ELSE v \in Errors
  /\ multi' =
       [multi EXCEPT
          !.op = "settle", !.work = FALSE,
          !.store = [i \in MBackends |->
                       IF ok THEN [storage |-> v, lastAccessTime |-> multi.accessTime]
                       ELSE [storage |-> NO_RESULT, lastAccessTime |-> 0]],
          !.result = [ev |-> IF ok THEN "resolve" ELSE "reject", val |-> v]]
  /\ UNCHANGED ctlVars
  /\ UNCHANGED nrVars
  /\ UNCHANGED made

\* The owner of backend i writes it directly: set(data, accessTime).
MultiSet(i, data, accessTime) ==
  /\ multi' = [multi EXCEPT !.op = "set",
                            !.store[i] = [storage |-> data, lastAccessTime |-> accessTime]]
  /\ UNCHANGED ctlVars
  /\ UNCHANGED nrVars
  /\ UNCHANGED made

MultiTick ==
  /\ multi.now < MaxTime
  /\ multi' = [multi EXCEPT !.op = "tick", !.now = @ + 1]
  /\ UNCHANGED ctlVars
  /\ UNCHANGED nrVars
  /\ UNCHANGED made

NextMulti ==
  \/ MultiGet
  \/ \E ok \in BOOLEAN, v \in Payloads \cup Errors : MultiSettle(ok, v)
  \/ \E i \in MBackends, v \in Payloads, t \in 0..MaxTime : MultiSet(i, v, t)
  \/ MultiTick

SpecMulti == Init /\ [][NextMulti]_vars

Next ==
  \/ Tick
  \/ \E d \in {0, 1}, up \in Upstream : Get(d, up)
  \/ \E f \in Slots, ok \in BOOLEAN, v \in Payloads \cup Errors : Settle(f, ok, v)
  \/ \E f \in Slots : Release(f)
  \/ \E f \in Slots : Deliver(f)
  \/ Clear

Spec == Init /\ [][Next]_vars

\* Scheduling. Every started upstream call settles (the assumption under
\* which termination is claimed), and a reaction job that a settled promise
\* has queued is run by the job queue. get(), clear() and the clock are the
\* environment's and carry no fairness.
Fairness ==
  \A f \in Slots :
    /\ WF_vars(\E ok \in BOOLEAN, v \in Payloads \cup Errors : Settle(f, ok, v))
    /\ WF_vars(Release(f))
    /\ WF_vars(Deliver(f))

SpecLive == Init /\ [][Next]_vars /\ Fairness

\* ======================================================== the claims
\* Steps of a behaviour, told apart by what they change.
\* A get() call is made in this step.
GetStep == gets' = gets + 1

\* This step invokes the upstream resolver.
InvokesUpstream == GetStep /\ lastCall'.ev \in {"start", "throw"}

\* A promise of get() waiting on fetch f is settled in this step.
WaiterSettles(f) == fetches'[f].waiters = fetches[f].waiters - 1

\* What a promise waiting on fetch f must be settled with: the outcome of f.
OutcomeOf(f) ==
  [ev |-> IF fetches[f].ok THEN "resolve" ELSE "reject", fetch |-> f,
   result |-> fetches[f].val]

\* C3: freshness window of the in-memory backend (part_003). After
\* set(v, t0), a get() at a clock reading q with t0 <= q <= t0 + timeout
\* returns v, and a get() at q > t0 + timeout returns the NO_RESULT marker.
C3_FreshnessWindow ==
  (nrOp = "get" /\ nrStorage # NO_RESULT /\ nrLastAccessTime <= nrNow)
    => nrResult = (IF nrNow <= nrLastAccessTime + timeout THEN nrStorage ELSE NO_RESULT)

\* A falsy payload written at t0 > 0 is read back exactly at the boundary
\* q = t0 + timeout.
C3_Witness ==
  /\ nrOp = "get"
  /\ nrStorage = ZERO
  /\ nrLastAccessTime > 0
  /\ nrNow = nrLastAccessTime + timeout
  /\ nrResult = ZERO

\* C4 as stated: in every reachable state at most one upstream call is
\* outstanding (started and not settled), under any interleaving of get(),
\* clear(), clock advance and settlement.
C4_AtMostOneFetch == Cardinality(Outstanding) <= 1

\* C4 amended: as long as clear() has not been called, at most one upstream
\* call is outstanding, under any interleaving of get(), clock advance and
\* settlement.
C4_AtMostOneFetchBeforeClear ==
  clears = 0 => Cardinality(Outstanding) <= 1

\* Two get() promises wait on the one outstanding upstream call.
C4_Witness ==
  /\ clears = 0
  /\ \E f \in Outstanding : fetches[f].waiters = 2

\* C1: single-flight. A fetch that started while no other fetch was in
\* flight, and that no clear() has followed, takes in every get() arriving
\* before its upstream call settles: the call joins it and the upstream is
\* not invoked again; and every promise waiting on it is settled with the
\* outcome of that one invocation.
C1_SingleFlight ==
  /\ [][\A f \in Slots :
          (GetStep /\ fetches[f].stage = "pending" /\ fetches[f].solo
                   /\ ~fetches[f].cleared)
            => /\ lastCall' = [ev |-> "join", fetch |-> f, result |-> NULL]
               /\ fetches'[f].waiters = fetches[f].waiters + 1
               /\ Outstanding' = {f}]_vars
  /\ [][\A f \in Slots :
          (fetches[f].stage = "released" /\ WaiterSettles(f) /\ fetches[f].solo
                   /\ ~fetches[f].cleared)
            => lastCall' = OutcomeOf(f)]_vars

\* Two calls have been taken in by one upstream invocation, which has
\* settled, and the first of them has received its outcome.
C1_Witness ==
  /\ gets = 2
  /\ \E f \in Slots :
       /\ fetches[f].stage = "released"
       /\ fetches[f].solo /\ ~fetches[f].cleared
       /\ fetches[f].waiters = 1
       /\ lastCall = [ev |-> "resolve", fetch |-> f, result |-> fetches[f].val]
       /\ \A g \in Slots \ {f} : fetches[g] = Free

\* C2 as stated: whenever the backend holds a value that is not expired at
\* the clock reading of the backend's get(), the get() call resolves with
\* the stored value and the upstream is not invoked.
C2_CacheHitShortCircuit ==
  [][(GetStep /\ storage # NULL /\ now' <= lastAccessTime + timeout)
       => lastCall' = [ev |-> "hit", fetch |-> NoFetch, result |-> storage]]_vars

\* C5 as stated: clear() while a fetch is outstanding leaves the in-flight
\* handle set.
C5_ClearKeepsInFlight ==
  [][(Clear /\ work \in Outstanding) => work' = work]_vars

\* C5 amended: clear() while a fetch is outstanding unsets the in-flight
\* handle and leaves the upstream call outstanding; a get() arriving after
\* the clear() and before the upstream is invoked again starts a new
\* upstream call, and no get() ever joins a fetch that a clear() has
\* followed.
C5_ClearDetachesInFlight ==
  /\ [][Clear => (work' = NoFetch /\ Outstanding' = Outstanding)]_vars
  /\ [][(GetStep /\ Outstanding # {} /\ lastWrite.kind = "clear"
                 /\ lastWrite.phase = "released")
          => InvokesUpstream]_vars
  /\ [][(GetStep /\ lastCall'.ev = "join") => ~fetches[lastCall'.fetch].cleared]_vars

\* After a clear() during a fetch, a get() has started a second upstream
\* call next to the first.
C5_Witness ==
  \E f, g \in Outstanding :
    /\ fetches[f].cleared
    /\ ~fetches[g].cleared
    /\ lastCall = [ev |-> "start", fetch |-> g, result |-> NULL]

\* C6: when the upstream call of a fetch rejects with error e, every
\* promise of get() that started or joined the fetch is rejected with e
\* itself.
C6_FailureVerbatim ==
  [][\A f \in Slots :
       (fetches[f].stage # "free" /\ ~fetches[f].ok /\ WaiterSettles(f))
         => /\ fetches[f].val \in Errors
            /\ lastCall' = [ev |-> "reject", fetch |-> f, result |-> fetches[f].val]]_vars

\* Of two calls on a fetch that failed with E2, one has been rejected with
\* E2 and the other is about to be.
C6_Witness ==
  \E f \in Slots :
    /\ fetches[f].stage = "released"
    /\ ~fetches[f].ok /\ fetches[f].val = "E2"
    /\ fetches[f].waiters = 1
    /\ lastCall = [ev |-> "reject", fetch |-> f, result |-> "E2"]

\* A promise of get() waiting on fetch f, whose upstream call rejected, is
\* settled in this step.
Rejects(f) ==
  fetches[f].stage \in {"stored", "released"} /\ ~fetches[f].ok /\ WaiterSettles(f)

\* C7: failure clears the cache. When a get() is rejected because its
\* upstream call rejected, and the backend has not been written and the
\* upstream not invoked since that fetch failed, the backend is empty and
\* _work is null; the next get() then invokes the upstream again.
C7_FailureClearsCache ==
  /\ [][\A f \in Slots :
          (Rejects(f) /\ lastWrite.kind = "fail" /\ lastWrite.id = f)
            => /\ lastCall'.ev = "reject"
               /\ storage' = NULL /\ lastAccessTime' = 0 /\ work' = NoFetch]_vars
  /\ [][(GetStep /\ lastCall.ev = "reject" /\ lastWrite.kind = "fail"
                 /\ lastWrite.id = lastCall.fetch)
          => InvokesUpstream]_vars

\* A get() has just been rejected by the failure of its fetch and nothing
\* has happened since; another get() can follow.
C7_Witness ==
  /\ lastCall.ev = "reject"
  /\ lastWrite.kind = "fail"
  /\ lastWrite.id = lastCall.fetch
  /\ gets < MaxCalls

\* C8: explicit clear. After a clear() with no fetch in flight, the next
\* get() invokes the upstream, whatever the backend held.
C8_ExplicitClear ==
  [][(GetStep /\ InFlight = {} /\ lastWrite.kind = "clear"
              /\ lastWrite.phase = "released")
       => InvokesUpstream]_vars

\* clear() erased an entry the backend reported as fresh, and the get()
\* after it has started a fetch.
C8_Witness ==
  /\ lastWrite.kind = "clear"
  /\ lastWrite.fresh
  /\ lastWrite.phase = "moved"
  /\ lastCall.ev = "start"
  /\ Outstanding = {lastCall.fetch}
  /\ gets = 2

\* C9 as stated: a fetch that a clear() has followed and that succeeds with
\* v still writes v with its fetch-start time, and a get() within the TTL of
\* that write is served v from the cache.
C9_ClearDoesNotCancel ==
  /\ [][\A f \in Slots, v \in Payloads :
          (Settle(f, TRUE, v) /\ fetches[f].cleared)
            => (storage' = v /\ lastAccessTime' = fetches[f].accessTime)]_vars
  /\ [][(GetStep /\ lastWrite.kind = "ok" /\ lastWrite.cleared
                 /\ now' <= lastAccessTime + timeout)
          => lastCall' = [ev |-> "hit", fetch |-> NoFetch, result |-> storage]]_vars

\* C10: clear() does not affect the get() calls already made. clear()
\* leaves every fetch and the promises waiting on it as they are, and a
\* promise waiting on a fetch that a clear() has followed is settled with
\* the outcome of that fetch.
C10_ClearLeavesCallsAlone ==
  /\ [][Clear => \A f \in Slots :
                   /\ fetches'[f].stage = fetches[f].stage
                   /\ fetches'[f].waiters = fetches[f].waiters
                   /\ fetches'[f].ok = fetches[f].ok
                   /\ fetches'[f].val = fetches[f].val
                   /\ fetches'[f].accessTime = fetches[f].accessTime]_vars
  /\ [][\A f \in Slots :
          (fetches[f].stage = "released" /\ fetches[f].cleared /\ WaiterSettles(f))
            => lastCall' = OutcomeOf(f)]_vars

\* Of two calls on a fetch that clear() followed, one has received the
\* fetch's value.
C10_Witness ==
  \E f \in Slots :
    /\ fetches[f].stage = "released"
    /\ fetches[f].cleared
    /\ fetches[f].ok /\ fetches[f].val = "B"
    /\ fetches[f].waiters = 1
    /\ lastCall = [ev |-> "resolve", fetch |-> f, result |-> "B"]

\* C11: every get() eventually settles. When every started upstream call
\* settles, each promise of get() waiting on a fetch is eventually resolved
\* or rejected, and a Controller whose _work slot is set eventually has it
\* unset again, under any interleaving with other get() and clear() calls.
C11_EveryGetSettles ==
  /\ \A f \in Slots : (fetches[f].waiters > 0) ~> (fetches[f].waiters = 0)
  /\ (work # NoFetch) ~> (work = NoFetch)

\* All the get() calls have been made, a clear() came in between, and every
\* promise has been settled, the last one by a rejection; _work is unset.
C11_Witness ==
  /\ gets = MaxCalls
  /\ clears > 0
  /\ work = NoFetch
  /\ \A f \in Slots : fetches[f] = Free
  /\ lastCall.ev = "reject"

\* C12 as stated: a cached null is distinguishable from "not cached". After
\* a fetch has written a falsy payload (null, 0) through to the backend, a
\* get() within the TTL of that write is a cache hit that returns the
\* payload, and the upstream is not invoked.
C12_CachedFalsyIsHit ==
  [][(GetStep /\ lastWrite.kind = "ok" /\ Falsy(storage)
              /\ now' <= lastAccessTime + timeout)
       => lastCall' = [ev |-> "hit", fetch |-> NoFetch, result |-> storage]]_vars

\* C13 as stated: construction fails fast on an invalid timeout. Creating a
\* cache through CacheMan.create with a timeout option that is given and is
\* 0, negative, not a number or not below MAX_SAFE_INTEGER raises a
\* configuration error and returns no Controller.
C13_InvalidTimeoutFailsFast ==
  (made.called /\ made.timeout # Undefined /\ ~CheckerTimeout(made.timeout))
    => ~made.result.ok

C15_JoinIgnoresArgs ==
  /\ [][(GetStep /\ lastCall'.ev = "start")
          => fetches'[lastCall'.fetch].args = gets']_vars
  /\ [][\A f \in Slots :
          (GetStep /\ lastCall'.ev = "join" /\ lastCall'.fetch = f)
            => /\ fetches[f].args # gets'
               /\ fetches'[f].args = fetches[f].args
               /\ Outstanding' = Outstanding
               /\ \A g \in Slots \ {f} : fetches'[g] = fetches[g]]_vars
  /\ [][\A f \in Slots :
          (fetches[f].stage = "released" /\ WaiterSettles(f))
            => /\ lastCall' = OutcomeOf(f)
               /\ fetches'[f].args \in {fetches[f].args, NoArgs}]_vars

\* The second get() has joined the fetch that the first one started; the
\* upstream was invoked with the arguments of the first.
C15_Witness ==
  /\ gets = 2
  /\ \E f \in Outstanding :
       /\ fetches[f].args = 1
       /\ fetches[f].waiters = 2
       /\ lastCall = [ev |-> "join", fetch |-> f, result |-> NULL]

\* C16: a cache hit has no side effects. A get() served from the backend
\* leaves the stored value, the write timestamp, the _work slot and every
\* fetch as they are; the entry's lifetime is not extended.
C16_HitHasNoSideEffects ==
  [][(GetStep /\ lastCall'.ev = "hit")
       => /\ storage' = storage
          /\ lastAccessTime' = lastAccessTime
          /\ work' = work
          /\ fetches' = fetches]_vars

\* A get() was served from an entry written at an earlier time, while the
\* _work slot was still set; the timestamp is the one of the write.
C16_Witness ==
  /\ lastCall.ev = "hit"
  /\ lastCall.result = storage
  /\ lastAccessTime < now
  /\ work # NoFetch

\* C17: the write-through timestamp is the fetch-start time. A fetch keeps
\* the clock reading taken at entry of the get() that started it, joiners
\* do not change it, and on success the backend is written with the result
\* and that reading, however late the upstream settles; a get() past
\* timeout after that reading is not served from the cache.
C17_WriteThroughTimestamp ==
  /\ [][(GetStep /\ lastCall'.ev = "start")
          => fetches'[lastCall'.fetch].accessTime = now]_vars
  /\ [][\A f \in Slots :
          (GetStep /\ lastCall'.ev = "join" /\ lastCall'.fetch = f)
            => fetches'[f].accessTime = fetches[f].accessTime]_vars
  /\ [][\A f \in Slots :
          (fetches[f].stage = "pending" /\ fetches'[f].stage = "stored" /\ fetches'[f].ok)
            => /\ storage' = fetches'[f].val
               /\ lastAccessTime' = fetches[f].accessTime]_vars
  /\ [][(GetStep /\ lastWrite.kind = "ok" /\ now' > lastAccessTime + timeout)
          => lastCall'.ev # "hit"]_vars

\* A fetch joined by a second call has taken longer than timeout: its value
\* has just been written with the start time and is expired already.
C17_Witness ==
  /\ lastWrite.kind = "ok"
  /\ lastWrite.phase = "stored"
  /\ storage = "A"
  /\ fetches[lastWrite.id].waiters = 2
  /\ lastAccessTime = fetches[lastWrite.id].accessTime
  /\ lastAccessTime + timeout < now

\* C18 as stated: non-promise upstream results are coerced. Also when the
\* upstream returns null or undefined, the get() that invoked it starts a
\* fetch, which resolves with that value and writes it through.
C18_NonPromiseCoerced ==
  [][\A d \in {0, 1} :
       (Get(d, "nullish") /\ InvokesUpstream) => lastCall'.ev = "start"]_vars

\* C19 as stated: single "now" per call. The backend's expiry test observes
\* the clock reading the Controller captured at entry of the call.
C19_SingleNow ==
  [][GetStep => now' = now]_vars

\* C19 amended: the Controller reads the clock once, at entry of the call,
\* and that reading is the timestamp of the fetch the call starts; the
\* backend reads the clock itself, at or after the Controller's reading,
\* and the call is a hit exactly when a truthy entry is within its TTL at
\* the backend's reading.
C19_TwoClockReadings ==
  /\ [][GetStep => now <= now']_vars
  /\ [][(GetStep /\ lastCall'.ev = "start")
          => fetches'[lastCall'.fetch].accessTime = now]_vars
  /\ [][GetStep => (lastCall'.ev = "hit"
                     <=> (~Falsy(storage) /\ now' <= lastAccessTime + timeout))]_vars

\* An entry was within its TTL at entry of a get() and past it at the
\* backend's reading one tick later: the call started a fetch, stamped with
\* the reading at entry.
C19_Witness ==
  /\ lastCall.ev = "start"
  /\ storage = "A"
  /\ fetches[lastCall.fetch].accessTime = lastAccessTime + timeout
  /\ now = lastAccessTime + timeout + 1
  /\ gets = 2
  /\ clears = 0

\* C20 as stated: set() overwrites unconditionally, and after set(null, 0)
\* or clear() the backend's get() returns the EMPTY marker at every later
\* time. Here: a get() that finds null stored with timestamp 0, or finds
\* what clear() left, returns NO_RESULT.
C20_SetOverwrites ==
  /\ [][\A v \in Payloads, t \in 0..MaxTime :
          NrSet(v, t) => (nrStorage' = v /\ nrLastAccessTime' = t)]_vars
  /\ [][(NrGet /\ nrLastAccessTime = 0 /\ nrStorage \in {NULL, NO_RESULT})
          => nrResult' = NO_RESULT]_vars

\* C20 amended: set(v, t) leaves exactly (v, t) stored, whatever was stored
\* before and however old t is. After clear() the backend's get() returns
\* NO_RESULT until the next set(). After set(null, 0) the backend holds
\* null as a value: get() returns null while the clock is within timeout
\* of 0, and NO_RESULT after that.
C20_SetOverwritesClearEmpties ==
  /\ [][\A v \in Payloads, t \in 0..MaxTime :
          NrSet(v, t) => (nrStorage' = v /\ nrLastAccessTime' = t)]_vars
  /\ [][(NrGet /\ nrStorage = NO_RESULT) => nrResult' = NO_RESULT]_vars
  /\ [][NrClear => (nrStorage' = NO_RESULT /\ nrLastAccessTime' = 0)]_vars
  /\ [][(NrGet /\ nrStorage = NULL /\ nrLastAccessTime = 0)
          => nrResult' = (IF nrNow <= timeout THEN NULL ELSE NO_RESULT)]_vars

\* After set(null, 0) a get() within timeout of 0 has returned null, not
\* the marker.
C20_Witness ==
  /\ nrOp = "get"
  /\ nrStorage = NULL
  /\ nrLastAccessTime = 0
  /\ nrNow = timeout
  /\ nrResult = NULL

\* C21: multi-backend fan-out. With an ordered list of backends, a get()
\* that finds a fresh value returns the value of the first backend in the
\* configured order that reports one, and the upstream is not invoked; a
\* get() that finds none starts or joins a fetch; and the result of a
\* successful fetch is written, with the fetch-start time, to every backend
\* of the list.
C21_MultiBackendFanOut ==
  /\ [][\A i \in MBackends :
          (MultiGet /\ MultiRead(i) # NO_RESULT
                    /\ \A j \in MBackends : j < i => MultiRead(j) = NO_RESULT)
            => /\ multi'.result = [ev |-> "hit", val |-> MultiRead(i)]
               /\ multi'.work = multi.work
               /\ multi'.store = multi.store]_vars
  /\ [][(MultiGet /\ \A i \in MBackends : MultiRead(i) = NO_RESULT)
          => /\ multi'.result.ev = (IF multi.work THEN "join" ELSE "start")
             /\ multi'.work]_vars
  /\ [][\A v \in Payloads :
          MultiSettle(TRUE, v)
            => \A i \in MBackends :
                 multi'.store[i] = [storage |-> v, lastAccessTime |-> multi.accessTime]]_vars

\* Both backends report a fresh value, not the same one, and the get() just
\* made has returned the value of the first.
C21_Witness ==
  /\ multi.op = "get"
  /\ MultiRead(1) = "A"
  /\ MultiRead(2) = "B"
  /\ multi.result = [ev |-> "hit", val |-> "A"]

\* Fetch g started after fetch f, which is still outstanding: the two
\* upstream calls overlap. (The ordinal of the starting get() orders them.)
StartedDuring(f, g) ==
  /\ f # g
  /\ fetches[f].stage = "pending"
  /\ fetches[g].stage # "free"
  /\ fetches[f].args < fetches[g].args

\* C22: last write wins, by order of settlement. When a fetch settles after
\* another fetch has settled (one it overlapped with, started before or
\* after it), the backend holds the outcome of the one settling now: its
\* value and its fetch-start time on success, the empty entry (null, 0) on
\* failure. In particular the fetch that started first and settles last
\* leaves its outcome.
C22_LastSettlementWins ==
  [][\A f, g \in Slots :
       (/\ f # g
        /\ fetches[g].stage \in {"stored", "released"}
        /\ fetches[f].stage = "pending" /\ fetches'[f].stage = "stored")
         => /\ IF fetches'[f].ok
               THEN storage' = fetches'[f].val /\ lastAccessTime' = fetches[f].accessTime
               ELSE storage' = NULL /\ lastAccessTime' = 0
            /\ StartedDuring(f, g) => lastWrite'.id = f]_vars

\* The fetch that started first has just failed, after the fetch that
\* started second had written a value that would still be fresh: the
\* backend is empty.
C22_Witness ==
  \E f, g \in Slots :
    /\ f # g
    /\ fetches[f].args < fetches[g].args
    /\ fetches[f].cleared
    /\ fetches[g].stage = "stored" /\ fetches[g].ok /\ ~fetches[g].cleared
    /\ fetches[g].val = "A"
    /\ now <= fetches[g].accessTime + timeout
    /\ lastWrite.kind = "fail" /\ lastWrite.id = f /\ lastWrite.phase = "stored"
    /\ storage = NULL /\ lastAccessTime = 0

Succeeds(f) ==
  /\ fetches[f].stage = "pending"
  /\ fetches'[f].stage = "stored"
  /\ fetches'[f].ok
  /\ fetches'[f].val \in Payloads

\* C24: cache integrity. What the backend holds is only ever changed to the
\* value of a fetch succeeding in that step or to the empty entry, and a
\* get() served from the cache resolves with what the backend holds, which
\* is not the empty entry; a promise waiting on a fetch resolves only if
\* the fetch succeeded, with the value the upstream call resolved with, and
\* is rejected if it failed. So every value get() resolves with was
\* returned by a successful upstream call, and null comes out of get() only
\* as the result of a fetch, never as the backend's report of emptiness.
C24_CacheIntegrity ==
  /\ [][storage' # storage
          => \/ storage' = NULL
             \/ \E f \in Slots : Succeeds(f) /\ storage' = fetches'[f].val]_vars
  /\ [][(GetStep /\ lastCall'.ev = "hit")
          => /\ lastCall'.result = storage
             /\ lastCall'.result \in Payloads \ {NULL}
             /\ lastWrite.kind = "ok"]_vars
  /\ [][\A f \in Slots :
          WaiterSettles(f)
            => /\ lastCall'.result = fetches[f].val
               /\ lastCall'.ev = (IF fetches[f].ok THEN "resolve" ELSE "reject")
               /\ fetches[f].ok => lastCall'.result \in Payloads
               /\ ~fetches[f].ok => lastCall'.result \in Errors]_vars
  /\ [][lastCall'.ev \in {"hit", "resolve"} /\ lastCall' # lastCall
          => GetStep \/ \E f \in Slots : WaiterSettles(f)]_vars

\* The second get() has been served from the cache the value that the
\* fetch started by the first wrote through.
C24_Witness ==
  /\ gets = 2
  /\ lastCall = [ev |-> "hit", fetch |-> NoFetch, result |-> "B"]
  /\ lastWrite.kind = "ok"
  /\ storage = "B"

\* C25 as stated: settlement ordering on success. A promise waiting on a
\* successful fetch is resolved only after the fetch has written the
\* backend and released _work; and a get() made from the resolution handler
\* (nothing has written the backend or invoked the upstream since that
\* fetch released _work) within the TTL counted from the fetch's start is
\* served the stored value from the cache: no upstream call, no join.
C25_SettlementOrdering ==
  /\ [][\A f \in Slots :
          (WaiterSettles(f) /\ fetches[f].ok)
            => /\ fetches[f].stage = "released"
               /\ (lastWrite.id = f /\ lastWrite.kind = "ok")
                    => /\ storage = fetches[f].val
                       /\ lastAccessTime = fetches[f].accessTime
                       /\ work # f]_vars
  /\ [][(/\ GetStep
         /\ lastCall.ev = "resolve"
         /\ lastWrite.kind = "ok" /\ lastWrite.id = lastCall.fetch
         /\ lastWrite.phase = "released"
         /\ now' <= lastAccessTime + timeout)
          => lastCall' = [ev |-> "hit", fetch |-> NoFetch, result |-> lastCall.result]]_vars

\* C26: synchronous upstream throw. When the upstream throws while get()
\* invokes it, that get() is rejected with the error thrown; _work stays
\* null, no fetch is created and the backend's value and timestamp are
\* left as they were. Until the next get() _work remains null, so the next
\* get() joins nothing and, unless a fetch that was already outstanding has
\* stored a fresh value in the meantime, invokes the upstream again.
C26_SynchronousThrow ==
  /\ [][\A d \in {0, 1}, e \in Errors :
          (/\ Get(d, e)
           /\ Falsy(MemGet(storage, lastAccessTime, timeout, now + d))
           /\ work = NoFetch)
            => /\ lastCall' = [ev |-> "throw", fetch |-> NoFetch, result |-> e]
               /\ work' = NoFetch
               /\ fetches' = fetches
               /\ storage' = storage
               /\ lastAccessTime' = lastAccessTime]_vars
  /\ [](lastCall.ev = "throw" /\ lastCall.result \in Errors => work = NoFetch)
  /\ [][(GetStep /\ lastCall.ev = "throw" /\ lastCall.result \in Errors)
          => /\ lastCall'.ev # "join"
             /\ Falsy(MemGet(storage, lastAccessTime, timeout, now'))
                  => InvokesUpstream]_vars

\* The upstream has just thrown E1 into the first get(): nothing is in
\* flight, the backend is as it was, and another get() can follow.
C26_Witness ==
  /\ lastCall = [ev |-> "throw", fetch |-> NoFetch, result |-> "E1"]
  /\ work = NoFetch
  /\ Outstanding = {}
  /\ storage = NULL /\ lastAccessTime = 0
  /\ gets < MaxCalls

====
